---- MODULE Spec2Model ----
(***************************************************************************)
(* Model of the OpsToolbox scripts:                                        *)
(*   aws/python/alb/getalblog.py    (get_alb_logs: S3 -> Elasticsearch)     *)
(*   aws/python/waf/copyipset.py    (copy_ip_set)                           *)
(*   aws/python/waf/copyallipset.py (copy_all_ip_sets)                      *)
(* The S3 bucket, the Elasticsearch cluster and the WAFv2 service are the   *)
(* environment; their state is part of the model's state.                   *)
(***************************************************************************)
EXTENDS Integers, Sequences, FiniteSets, TLC

\* ------------------------------------------------------------------------
\* Bounds of the inputs
\* ------------------------------------------------------------------------
\* objects in the bucket under base_prefix/log_path_prefix/
MaxObjects == 2
\* log lines in the bucket, all objects together
MaxLines == 2
\* keys one list_objects_v2 response carries (S3: MaxKeys)
PageSize == 1

\* IP sets of a scope: their names are 1..MaxSets
MaxSets == 2
\* writes of other clients to the destination scope during a run
MaxExternal == 1

\* months (of one year) that object keys, documents and the clock range over
Months == {4, 5}
\* days of the month that object keys, documents and the clock range over
Days == {1, 2}
\* second and microsecond fields that log line timestamps range over
TimesOfDay == {<<0, 0>>, <<0, 1>>, <<1, 0>>}
\* second field that timestamps of documents already in the index range over
DocSeconds == {0, 1}

\* ------------------------------------------------------------------------
\* Python values
\* ------------------------------------------------------------------------
None == <<>>
Some(x) == <<x>>

\* datetime(year, month, day, 0, 0, second, microsecond); one year only
DateTime(ym, day, sec, frac) == [ym |-> ym, day |-> day, sec |-> sec, frac |-> frac]

\* datetime.__lt__
Before(a, b) ==
    \/ a.ym < b.ym
    \/ a.ym = b.ym /\ a.day < b.day
    \/ a.ym = b.ym /\ a.day = b.day /\ a.sec < b.sec
    \/ a.ym = b.ym /\ a.day = b.day /\ a.sec = b.sec /\ a.frac < b.frac

\* A timestamp string: its date and second, its fractional part if it has
\* one (frac = <<f>>) and what follows the seconds or the fraction.
TsString(ym, day, sec, frac, suffix) ==
    [ym |-> ym, day |-> day, sec |-> sec, frac |-> frac, suffix |-> suffix]

\* datetime.strptime(s, fmt) for the two formats the script uses; None
\* stands for the ValueError strptime raises when s is not in the format.
strptime(s, fmt) ==
    IF fmt = "%Y-%m-%dT%H:%M:%S.%fZ"
    THEN IF Len(s.frac) = 1 /\ s.suffix = "Z"
         THEN Some(DateTime(s.ym, s.day, s.sec, s.frac[1]))
         ELSE None
    ELSE IF s.frac = <<>> /\ s.suffix = ""
         THEN Some(DateTime(s.ym, s.day, s.sec, 0))
         ELSE None

\* t.strftime('%Y-%m-%dT%H:%M:%SZ'): the microseconds are dropped
strftime(t) == TsString(t.ym, t.day, t.sec, <<>>, "Z")

\* ------------------------------------------------------------------------
\* getalblog.py
\* ------------------------------------------------------------------------
VARIABLES
    s3,             \* the bucket: objects in key order, [ym, day, lines]
    now,            \* datetime.now() of the invocation
    esIdx,          \* the cluster: index name -> documents
    pc,             \* position of get_alb_logs
    last_log_time,  \* Option(DateTime)
    month_prefix,   \* Option([ym]): the year/month of month_prefix
    pages,          \* pages of page_iterator not yet fetched
    page,           \* objects of the current page not yet processed
    actions,        \* the bulk actions accumulated so far
    bulkLog,        \* payloads of the helpers.bulk calls of this run
    enumerated,     \* objects get_object was called for, in order
    searched,       \* Option: the index searched and whether es.search raised
    crash,          \* Option: the uncaught exception that ended the run
    run,            \* "first" or "second" invocation
    prevBulk        \* payloads of the helpers.bulk calls of the first run

ingestVars == <<s3, now, esIdx, pc, last_log_time, month_prefix, pages, page,
                actions, bulkLog, enumerated, searched, crash, run, prevBulk>>

VARIABLES
    srcSets,        \* the source scope: IP sets in list_ip_sets order, [name, addrs]
    dstSets,        \* the destination scope: name -> [present, addrs, token]
    args,           \* the command line: [tool, sn, dn, ds]
    wpc,            \* position of copy_ip_set or copy_all_ip_sets
    ip_addresses,   \* Option: Addresses of the source IP set
    destination_ip_set_id,  \* Option: <<scope, name>>
    lock_token,     \* Option: the LockToken read
    source_ip_sets, \* copy_all_ip_sets: the listing of line 9
    idx,            \* copy_all_ip_sets: position in source_ip_sets
    wcrash,         \* Option: the uncaught exception that ended the run
    wrun,           \* "first" or "second" invocation
    lastRead,       \* Option: the tool's latest get_ip_set of the destination, [id, token]
    dirty,          \* names another client wrote since the tool last read them
    updateLog,      \* the run's update_ip_set calls
    toolWrites,     \* the run's successful create_ip_set and update_ip_set calls
    failed,         \* copy_all_ip_sets: positions whose copy raised
    extCount        \* writes of other clients so far in this run

wafVars == <<srcSets, dstSets, args, wpc, ip_addresses, destination_ip_set_id, lock_token,
             source_ip_sets, idx, wcrash, wrun, lastRead, dirty, updateLog, toolWrites,
             failed, extCount>>

vars == <<ingestVars, wafVars>>

es_index == "es_index"

\* A log line: whether the pattern of parse_log_line matches it, and its
\* second field (group 2) when it does.  The date of the timestamp is the
\* date of the object's key.
GarbageLine == [match |-> FALSE, sec |-> 0, frac |-> <<>>, suffix |-> ""]
\* all 33 fields present, timestamp without fractional seconds
NoFractionLine == [match |-> TRUE, sec |-> 0, frac |-> <<>>, suffix |-> "Z"]
GoodLines == {[match |-> TRUE, sec |-> t[1], frac |-> <<t[2]>>, suffix |-> "Z"] :
                t \in TimesOfDay}
Lines == {GarbageLine, NoFractionLine} \cup GoodLines

TimestampField(obj, line) == TsString(obj.ym, obj.day, line.sec, line.frac, line.suffix)

parse_log_line(obj, line) ==
    IF line.match THEN Some([timestamp |-> TimestampField(obj, line)]) ELSE None

\* the filter with >= for >
NewerOrEqual(original_timestamp, last) ==
    last = None \/ ~Before(original_timestamp, last[1])

\* line 215: the filter against the last indexed time
Newer(original_timestamp, last) ==
    last = None \/ Before(last[1], original_timestamp)

\* lines 216-219; `line` stands for the other 32 fields of the record
LogEntry(log_data, oi, li) ==
    [index |-> <<es_index>>, timestamp |-> log_data.timestamp, line |-> <<oi, li>>]

\* lines 202-220 for one object, from line li on: the actions after it and
\* the exception that ended it, if any
RECURSIVE ProcessLines(_, _, _, _, _)
ProcessLines(obj, oi, li, last, acts) ==
    IF li > Len(obj.lines) THEN [actions |-> acts, crash |-> None]
    ELSE LET log_data == parse_log_line(obj, obj.lines[li]) IN
         IF log_data = None THEN ProcessLines(obj, oi, li + 1, last, acts)
         ELSE LET original == strptime(log_data[1].timestamp, "%Y-%m-%dT%H:%M:%S.%fZ") IN
              IF original = None
              THEN [actions |-> acts,
                    crash |-> Some([error |-> "ValueError", at |-> 209, line |-> <<oi, li>>])]
              ELSE LET adjusted == [timestamp |-> strftime(original[1])] IN
                   IF Newer(original[1], last)
                   THEN ProcessLines(obj, oi, li + 1, last,
                                     Append(acts, LogEntry(adjusted, oi, li)))
                   ELSE ProcessLines(obj, oi, li + 1, last, acts)

\* The documents of an index as es.search sorts them on "timestamp",
\* descending: documents with the field first, newest first; documents
\* without it last.
DocBefore(a, b) ==
    Before(DateTime(a.ym, a.day, a.sec, 0), DateTime(b.ym, b.day, b.sec, 0))

TopHits(docs) ==
    LET all == {docs[i] : i \in 1..Len(docs)}
        flat == {d \in all : ~d.nested}
    IN  IF flat # {}
        THEN {d \in flat : \A e \in flat : ~DocBefore(d.timestamp, e.timestamp)}
        ELSE all

\* What es.search (lines 142-147) can answer for an index
SearchOutcomes(docs) ==
    {[raised |-> TRUE, hits |-> <<>>]} \cup
    (IF docs = <<>>
     THEN {[raised |-> FALSE, hits |-> <<>>]}
     ELSE {[raised |-> FALSE, hits |-> <<d>>] : d \in TopHits(docs)})

\* lines 139-153; every exception is caught and gives None
get_last_log_time(out) ==
    IF out.raised THEN None
    ELSE IF out.hits = <<>> THEN None
    ELSE IF ~out.hits[1].nested THEN None       \* KeyError: 'log'
    ELSE strptime(out.hits[1].timestamp, "%Y-%m-%dT%H:%M:%S")

\* lines 97-135: the date of the key of the least recently modified object
\* of the first listing page.  LastModified is any order on the objects;
\* the keys carry their year, month and day as path components 5 to 7.
get_earliest_alb_log_date(bucket) ==
    IF bucket = <<>> THEN {None}
    ELSE {Some(DateTime(bucket[i].ym, bucket[i].day, 0, 0)) :
            i \in 1..(IF Len(bucket) < PageSize THEN Len(bucket) ELSE PageSize)}

\* lines 84-94, called with index_name = es_index-<date of earliest>
create_index_with_date(earliest, today) ==
    <<es_index, <<earliest.ym, earliest.day>>, <<today.ym, today.day>>>>

\* line 165: the names that start with es_index
ExistingIndices(es) == {n \in DOMAIN es : n[1] = es_index}

\* lines 190-191: the keys under month_prefix, PageSize per page; a listing
\* without keys is one page without "Contents"
RECURSIVE Chunks(_)
Chunks(keys) ==
    IF Len(keys) <= PageSize THEN <<keys>>
    ELSE <<SubSeq(keys, 1, PageSize)>> \o Chunks(SubSeq(keys, PageSize + 1, Len(keys)))

Paginate(bucket, ym) ==
    Chunks(SelectSeq([i \in 1..Len(bucket) |-> i], LAMBDA i : bucket[i].ym = ym))

\* the bulk call without its guard
AlwaysBulk(acts) == TRUE

\* line 224
ShouldBulk(acts) == acts # <<>>

\* helpers.bulk: every action's _source is added to the index it names
Bulk(es, acts) ==
    LET docs == [i \in 1..Len(acts) |->
                    [nested |-> FALSE, timestamp |-> acts[i].timestamp, line |-> acts[i].line]]
        old == IF <<es_index>> \in DOMAIN es THEN es[<<es_index>>] ELSE <<>>
    IN  IF acts = <<>> THEN es
        ELSE [n \in DOMAIN es \cup {<<es_index>>} |->
                IF n = <<es_index>> THEN old \o docs ELSE es[n]]

\* lines 165-182
DetermineHighWaterMark ==
    /\ pc = "start"
    /\ IF ExistingIndices(esIdx) # {}
       THEN \E last \in ExistingIndices(esIdx) :     \* existing_indices[-1]
            \E out \in SearchOutcomes(esIdx[last]) :
               /\ last_log_time' = get_last_log_time(out)
               /\ searched' = Some([index |-> last, raised |-> out.raised,
                                     hits |-> Len(out.hits)])
               /\ esIdx' = esIdx
       ELSE \E earliest \in get_earliest_alb_log_date(s3) :
               /\ last_log_time' = earliest
               /\ searched' = None
               /\ esIdx' = IF earliest = None THEN esIdx
                           ELSE [n \in DOMAIN esIdx \cup {create_index_with_date(earliest[1], now)}
                                   |-> IF n \in DOMAIN esIdx THEN esIdx[n] ELSE <<>>]
    /\ pc' = "prefix"
    /\ UNCHANGED <<s3, now, month_prefix, pages, page, actions, bulkLog, enumerated, crash, run, prevBulk>>

\* what follows a None last_log_time at line 185
NoneYear == [pc |-> "crashed",
             crash |-> Some([error |-> "AttributeError", at |-> 185, line |-> <<0, 0>>])]

\* lines 185-193
ComputeMonthPrefix ==
    /\ pc = "prefix"
    /\ IF last_log_time = None
       THEN /\ pc' = NoneYear.pc
            /\ crash' = NoneYear.crash
            /\ UNCHANGED <<month_prefix, pages>>
       ELSE /\ month_prefix' = Some(last_log_time[1].ym)
            /\ pages' = Paginate(s3, last_log_time[1].ym)
            /\ pc' = "loop"
            /\ crash' = crash
    /\ UNCHANGED <<s3, now, esIdx, last_log_time, page, actions, bulkLog, enumerated, searched, run, prevBulk>>

\* lines 195-196
NextPage ==
    /\ pc = "loop"
    /\ page = <<>>
    /\ pages # <<>>
    /\ page' = Head(pages)
    /\ pages' = Tail(pages)
    /\ UNCHANGED <<s3, now, esIdx, pc, last_log_time, month_prefix, actions, bulkLog,
                   enumerated, searched, crash, run, prevBulk>>

\* lines 197-220
ProcessObject ==
    /\ pc = "loop"
    /\ page # <<>>
    /\ LET oi == Head(page)
           r == ProcessLines(s3[oi], oi, 1, last_log_time, actions)
       IN  /\ actions' = r.actions
           /\ enumerated' = Append(enumerated, oi)
           /\ crash' = r.crash
           /\ pc' = IF r.crash = None THEN "loop" ELSE "crashed"
    /\ page' = Tail(page)
    /\ UNCHANGED <<s3, now, esIdx, last_log_time, month_prefix, pages, bulkLog, searched, run, prevBulk>>

\* lines 224-226
BulkIndex ==
    /\ pc = "loop"
    /\ page = <<>>
    /\ pages = <<>>
    /\ IF ShouldBulk(actions)
       THEN /\ esIdx' = Bulk(esIdx, actions)
            /\ bulkLog' = Append(bulkLog, actions)
       ELSE UNCHANGED <<esIdx, bulkLog>>
    /\ pc' = "done"
    /\ UNCHANGED <<s3, now, last_log_time, month_prefix, pages, page, actions, enumerated,
                   searched, crash, run, prevBulk>>

\* ------------------------------------------------------------------------
\* Initial states
\* ------------------------------------------------------------------------
SeqsUpTo(S, n) == UNION {[1..k -> S] : k \in 0..n}

NonDecreasing(f) == \A i \in 1..(Len(f) - 1) : f[i] <= f[i + 1]

\* Buckets: up to MaxObjects objects in key order (by year/month/day), with
\* up to MaxLines lines shared out among them
Buckets ==
    {[i \in 1..Len(dates) |->
        [ym |-> dates[i][1], day |-> dates[i][2],
         lines |-> SubSeq(flat, (IF i = 1 THEN 0 ELSE cuts[i - 1]) + 1, cuts[i])]] :
     <<dates, flat, cuts>> \in
        {t \in SeqsUpTo(Months \X Days, MaxObjects) \X SeqsUpTo(Lines, MaxLines)
                 \X SeqsUpTo(0..MaxLines, MaxObjects) :
            /\ Len(t[3]) = Len(t[1])
            /\ NonDecreasing(t[3])
            /\ \A i \in 1..Len(t[3]) : t[3][i] <= Len(t[2])
            /\ IF Len(t[1]) = 0 THEN t[2] = <<>> ELSE t[3][Len(t[3])] = Len(t[2])
            /\ \A i \in 1..(Len(t[1]) - 1) :
                  \/ t[1][i][1] < t[1][i + 1][1]
                  \/ t[1][i][1] = t[1][i + 1][1] /\ t[1][i][2] <= t[1][i + 1][2]}}

\* a document some other writer put in the index, with log.timestamp
ForeignDoc(ym, day, sec, suffix) ==
    [nested |-> TRUE, timestamp |-> TsString(ym, day, sec, <<>>, suffix), line |-> <<0, 0>>]

FirstMonth == CHOOSE m \in Months : \A n \in Months : m <= n
FirstDay == CHOOSE d \in Days : \A e \in Days : d <= e

\* Clusters: no index of that name; an empty one; one with a document
Clusters ==
    {<<>>}
    \cup {[n \in {create_index_with_date(DateTime(FirstMonth, FirstDay, 0, 0),
                                          DateTime(FirstMonth, FirstDay, 0, 0))} |-> <<>>]}
    \cup {[n \in {<<es_index>>} |-> <<ForeignDoc(ym, FirstDay, sec, "")>>] :
            <<ym, sec>> \in Months \X DocSeconds}
    \cup {[n \in {<<es_index>>} |-> <<ForeignDoc(FirstMonth, FirstDay, 0, "Z")>>]}

IngestStart ==
    /\ s3 \in Buckets
    /\ now \in [ym : Months, day : Days]
    /\ esIdx \in Clusters
    /\ pc = "start"
    /\ last_log_time = None
    /\ month_prefix = None
    /\ pages = <<>>
    /\ page = <<>>
    /\ actions = <<>>
    /\ bulkLog = <<>>
    /\ enumerated = <<>>
    /\ searched = None
    /\ crash = None
    /\ run = "first"
    /\ prevBulk = <<>>

\* the WAF tools are not running
WafIdle ==
    /\ srcSets = <<>>
    /\ dstSets = <<>>
    /\ args = [tool |-> "none", sn |-> 0, dn |-> 0, ds |-> "REGIONAL"]
    /\ wpc = "idle"
    /\ ip_addresses = None
    /\ destination_ip_set_id = None
    /\ lock_token = None
    /\ source_ip_sets = <<>>
    /\ idx = 0
    /\ wcrash = None
    /\ wrun = "first"
    /\ lastRead = None
    /\ dirty = {}
    /\ updateLog = <<>>
    /\ toolWrites = <<>>
    /\ failed = {}
    /\ extCount = 0

NextIngest ==
    \/ DetermineHighWaterMark /\ UNCHANGED wafVars
    \/ ComputeMonthPrefix /\ UNCHANGED wafVars
    \/ NextPage /\ UNCHANGED wafVars
    \/ ProcessObject /\ UNCHANGED wafVars
    \/ BulkIndex /\ UNCHANGED wafVars

InitIngest == IngestStart /\ WafIdle

SpecIngest == InitIngest /\ [][NextIngest]_vars

\* The operator invokes the script a second time, after the first run ended;
\* the bucket is as it was.
Rerun ==
    /\ pc \in {"done", "crashed"}
    /\ run = "first"
    /\ run' = "second"
    /\ prevBulk' = bulkLog
    /\ pc' = "start"
    /\ last_log_time' = None
    /\ month_prefix' = None
    /\ pages' = <<>>
    /\ page' = <<>>
    /\ actions' = <<>>
    /\ bulkLog' = <<>>
    /\ enumerated' = <<>>
    /\ searched' = None
    /\ crash' = None
    /\ UNCHANGED <<s3, now, esIdx>>

NextRerun ==
    \/ DetermineHighWaterMark /\ UNCHANGED wafVars
    \/ ComputeMonthPrefix /\ UNCHANGED wafVars
    \/ NextPage /\ UNCHANGED wafVars
    \/ ProcessObject /\ UNCHANGED wafVars
    \/ BulkIndex /\ UNCHANGED wafVars
    \/ Rerun /\ UNCHANGED wafVars

SpecRerun == InitIngest /\ [][NextRerun]_vars

\* get_alb_logs is not running
IngestIdle ==
    /\ s3 = <<>>
    /\ now = [ym |-> FirstMonth, day |-> FirstDay]
    /\ esIdx = <<>>
    /\ pc = "idle"
    /\ last_log_time = None
    /\ month_prefix = None
    /\ pages = <<>>
    /\ page = <<>>
    /\ actions = <<>>
    /\ bulkLog = <<>>
    /\ enumerated = <<>>
    /\ searched = None
    /\ crash = None
    /\ run = "first"
    /\ prevBulk = <<>>

\* ------------------------------------------------------------------------
\* The WAFv2 service, as the scripts use it
\* ------------------------------------------------------------------------
Scopes == {"REGIONAL", "CLOUDFRONT"}
Names == 1..MaxSets

\* address lists of source IP sets
SourceLists == {{}, {"10.0.0.0/8"}}
\* the address list of a destination IP set before the run
StaleList == {"203.0.113.0/24"}
\* the address list another client writes
ExternalList == {"198.51.100.0/24"}

Absent == [present |-> FALSE, addrs |-> {}, token |-> 0]

\* list_ip_sets(Scope=ds): the names of the destination scope
ListIpSets(dst) == {n \in DOMAIN dst : dst[n].present}

\* get_ip_set(Name, Id, Scope): None stands for WAFNonexistentItemException.
\* An Id names an IP set of one scope.
GetIpSet(dst, scope, id) ==
    IF id[1] = scope /\ dst[id[2]].present
    THEN Some([Addresses |-> dst[id[2]].addrs, LockToken |-> dst[id[2]].token])
    ELSE None

\* create_ip_set(Name, Scope, Addresses): the service refuses a second set
\* of the name in the scope (WAFDuplicateItemException)
CreateIpSet(dst, name, addrs) ==
    IF dst[name].present
    THEN [error |-> "WAFDuplicateItemException", dst |-> dst]
    ELSE [error |-> "",
          dst |-> [dst EXCEPT ![name] = [present |-> TRUE, addrs |-> addrs, token |-> 1]]]

\* update_ip_set(Name, Id, Scope, Addresses, LockToken): the service accepts
\* the write only under the set's current token, and gives it a new one
UpdateIpSet(dst, scope, id, addrs, token) ==
    IF ~(id[1] = scope /\ dst[id[2]].present)
    THEN [error |-> "WAFNonexistentItemException", dst |-> dst]
    ELSE IF token # dst[id[2]].token
    THEN [error |-> "WAFOptimisticLockException", dst |-> dst]
    ELSE [error |-> "",
          dst |-> [dst EXCEPT ![id[2]] = [present |-> TRUE, addrs |-> addrs,
                                          token |-> dst[id[2]].token + 1]]]

\* another client of the service writes an IP set of the destination scope
ExternalWrite ==
    /\ wpc \notin {"idle", "done", "crashed"}
    /\ extCount < MaxExternal
    /\ \E n \in Names :
          /\ dstSets' = [dstSets EXCEPT ![n] =
                            [present |-> TRUE, addrs |-> ExternalList,
                             token |-> dstSets[n].token + 1]]
          /\ dirty' = dirty \cup {n}
    /\ extCount' = extCount + 1
    /\ UNCHANGED <<srcSets, args, wpc, ip_addresses, destination_ip_set_id, lock_token,
                   source_ip_sets, idx, wcrash, wrun, lastRead, updateLog, toolWrites, failed>>

\* ------------------------------------------------------------------------
\* copyipset.py
\* ------------------------------------------------------------------------
\* lines 10-15 and 27-32: the first IP set of the name in a listing
FindByName(sets, name) ==
    LET hits == {i \in 1..Len(sets) : sets[i].name = name}
    IN  IF hits = {} THEN None
        ELSE Some(sets[CHOOSE i \in hits : \A j \in hits : i <= j])

\* line 46: the scope of the get_ip_set that reads the LockToken
LockTokenScope(ds) == "REGIONAL"

\* the update repeated under a newly read token until the service accepts it
update_ip_set_retrying(dst, scope, id, addrs, token) ==
    UpdateIpSet(dst, scope, id, addrs, dst[id[2]].token)

\* lines 50-56 (copy_all_ip_sets: 29-35): the update under the token read
update_ip_set(dst, scope, id, addrs, token) == UpdateIpSet(dst, scope, id, addrs, token)

UpdateEntry(id, token, res) ==
    [id |-> id, token |-> token, read |-> lastRead, dirty |-> id[2] \in dirty,
     error |-> res.error, before |-> dstSets[id[2]].addrs, after |-> res.dst[id[2]].addrs]

\* lines 10-32
CopyResolve ==
    /\ args.tool = "copy"
    /\ wpc = "c_start"
    /\ LET src == FindByName(srcSets, args.sn) IN
       IF src = None
       THEN /\ wpc' = "done"                       \* lines 17-19
            /\ UNCHANGED <<ip_addresses, destination_ip_set_id>>
       ELSE /\ ip_addresses' = Some(src[1].addrs)
            /\ IF args.dn \in ListIpSets(dstSets)
               THEN /\ destination_ip_set_id' = Some(<<args.ds, args.dn>>)
                    /\ wpc' = "c_get"
               ELSE /\ destination_ip_set_id' = None
                    /\ wpc' = "c_create"
    /\ UNCHANGED <<srcSets, dstSets, args, lock_token, source_ip_sets, idx, wcrash, wrun,
                   lastRead, dirty, updateLog, toolWrites, failed, extCount>>

\* lines 35-43
CopyCreate ==
    /\ args.tool = "copy"
    /\ wpc = "c_create"
    /\ LET res == CreateIpSet(dstSets, args.dn, {}) IN
       IF res.error # ""
       THEN /\ wpc' = "crashed"
            /\ wcrash' = Some([error |-> res.error, at |-> 36])
            /\ UNCHANGED <<dstSets, destination_ip_set_id, toolWrites>>
       ELSE /\ dstSets' = res.dst
            /\ destination_ip_set_id' = Some(<<args.ds, args.dn>>)
            /\ toolWrites' = Append(toolWrites, [op |-> "create", name |-> args.dn, addrs |-> {}])
            /\ wpc' = "c_get"
            /\ wcrash' = wcrash
    /\ UNCHANGED <<srcSets, args, ip_addresses, lock_token, source_ip_sets, idx, wrun,
                   lastRead, dirty, updateLog, failed, extCount>>

\* lines 46-47
CopyGetToken ==
    /\ args.tool = "copy"
    /\ wpc = "c_get"
    /\ LET res == GetIpSet(dstSets, LockTokenScope(args.ds), destination_ip_set_id[1]) IN
       IF res = None
       THEN /\ wpc' = "crashed"
            /\ wcrash' = Some([error |-> "WAFNonexistentItemException", at |-> 46])
            /\ UNCHANGED <<lock_token, lastRead, dirty>>
       ELSE /\ lock_token' = Some(res[1].LockToken)
            /\ lastRead' = Some([id |-> destination_ip_set_id[1], token |-> res[1].LockToken])
            /\ dirty' = dirty \ {args.dn}
            /\ wpc' = "c_update"
            /\ wcrash' = wcrash
    /\ UNCHANGED <<srcSets, dstSets, args, ip_addresses, destination_ip_set_id,
                   source_ip_sets, idx, wrun, updateLog, toolWrites, failed, extCount>>

\* lines 50-57
CopyUpdate ==
    /\ args.tool = "copy"
    /\ wpc = "c_update"
    /\ LET id == destination_ip_set_id[1]
           res == update_ip_set(dstSets, args.ds, id, ip_addresses[1], lock_token[1])
       IN  /\ updateLog' = Append(updateLog, UpdateEntry(id, lock_token[1], res))
           /\ dstSets' = res.dst
           /\ IF res.error # ""
              THEN /\ wpc' = "crashed"
                   /\ wcrash' = Some([error |-> res.error, at |-> 50])
                   /\ toolWrites' = toolWrites
              ELSE /\ wpc' = "done"
                   /\ wcrash' = wcrash
                   /\ toolWrites' = Append(toolWrites,
                          [op |-> "update", name |-> id[2], addrs |-> ip_addresses[1]])
    /\ UNCHANGED <<srcSets, args, ip_addresses, destination_ip_set_id, lock_token,
                   source_ip_sets, idx, wrun, lastRead, dirty, failed, extCount>>

\* ------------------------------------------------------------------------
\* copyallipset.py
\* ------------------------------------------------------------------------
\* the loop going on to the next IP set after an exception
LoopFailureSkips(i) == [wpc |-> "a_iter", idx |-> i + 1]

\* An exception raised inside the loop of lines 11-46 is caught nowhere: it
\* ends the run at the IP set it was raised for.
LoopFailure(i) == [wpc |-> "crashed", idx |-> i]

\* line 9
AllListSource ==
    /\ args.tool = "copyall"
    /\ wpc = "a_start"
    /\ source_ip_sets' = srcSets
    /\ idx' = 1
    /\ wpc' = "a_iter"
    /\ UNCHANGED <<srcSets, dstSets, args, ip_addresses, destination_ip_set_id, lock_token,
                   wcrash, wrun, lastRead, dirty, updateLog, toolWrites, failed, extCount>>

\* lines 11-25: the next IP set of the listing, or the end of the loop
AllResolve ==
    /\ args.tool = "copyall"
    /\ wpc = "a_iter"
    /\ IF idx > Len(source_ip_sets)
       THEN /\ wpc' = "done"
            /\ UNCHANGED <<ip_addresses, destination_ip_set_id>>
       ELSE LET name == source_ip_sets[idx].name
                src == FindByName(srcSets, name)
            IN  /\ ip_addresses' = Some(src[1].addrs)
                /\ IF name \in ListIpSets(dstSets)
                   THEN /\ destination_ip_set_id' = Some(<<args.ds, name>>)
                        /\ wpc' = "a_get"
                   ELSE /\ destination_ip_set_id' = None
                        /\ wpc' = "a_create"
    /\ UNCHANGED <<srcSets, dstSets, args, lock_token, source_ip_sets, idx, wcrash, wrun,
                   lastRead, dirty, updateLog, toolWrites, failed, extCount>>

\* line 28
AllGetToken ==
    /\ args.tool = "copyall"
    /\ wpc = "a_get"
    /\ LET res == GetIpSet(dstSets, args.ds, destination_ip_set_id[1]) IN
       IF res = None
       THEN /\ wpc' = LoopFailure(idx).wpc
            /\ idx' = LoopFailure(idx).idx
            /\ failed' = failed \cup {idx}
            /\ wcrash' = Some([error |-> "WAFNonexistentItemException", at |-> 28])
            /\ UNCHANGED <<lock_token, lastRead, dirty>>
       ELSE /\ lock_token' = Some(res[1].LockToken)
            /\ lastRead' = Some([id |-> destination_ip_set_id[1], token |-> res[1].LockToken])
            /\ dirty' = dirty \ {destination_ip_set_id[1][2]}
            /\ wpc' = "a_update"
            /\ UNCHANGED <<idx, failed, wcrash>>
    /\ UNCHANGED <<srcSets, dstSets, args, ip_addresses, destination_ip_set_id,
                   source_ip_sets, wrun, updateLog, toolWrites, extCount>>

\* lines 29-36
AllUpdate ==
    /\ args.tool = "copyall"
    /\ wpc = "a_update"
    /\ LET id == destination_ip_set_id[1]
           res == update_ip_set(dstSets, args.ds, id, ip_addresses[1], lock_token[1])
       IN  /\ updateLog' = Append(updateLog, UpdateEntry(id, lock_token[1], res))
           /\ dstSets' = res.dst
           /\ IF res.error # ""
              THEN /\ wpc' = LoopFailure(idx).wpc
                   /\ idx' = LoopFailure(idx).idx
                   /\ failed' = failed \cup {idx}
                   /\ wcrash' = Some([error |-> res.error, at |-> 29])
                   /\ toolWrites' = toolWrites
              ELSE /\ wpc' = "a_iter"
                   /\ idx' = idx + 1
                   /\ toolWrites' = Append(toolWrites,
                          [op |-> "update", name |-> id[2], addrs |-> ip_addresses[1]])
                   /\ UNCHANGED <<failed, wcrash>>
    /\ UNCHANGED <<srcSets, args, ip_addresses, destination_ip_set_id, lock_token,
                   source_ip_sets, wrun, lastRead, dirty, extCount>>

\* lines 39-46
AllCreate ==
    /\ args.tool = "copyall"
    /\ wpc = "a_create"
    /\ LET name == source_ip_sets[idx].name
           res == CreateIpSet(dstSets, name, ip_addresses[1])
       IN  /\ dstSets' = res.dst
           /\ IF res.error # ""
              THEN /\ wpc' = LoopFailure(idx).wpc
                   /\ idx' = LoopFailure(idx).idx
                   /\ failed' = failed \cup {idx}
                   /\ wcrash' = Some([error |-> res.error, at |-> 39])
                   /\ toolWrites' = toolWrites
              ELSE /\ wpc' = "a_iter"
                   /\ idx' = idx + 1
                   /\ toolWrites' = Append(toolWrites,
                          [op |-> "create", name |-> name, addrs |-> ip_addresses[1]])
                   /\ UNCHANGED <<failed, wcrash>>
    /\ UNCHANGED <<srcSets, args, ip_addresses, destination_ip_set_id, lock_token,
                   source_ip_sets, wrun, lastRead, dirty, updateLog, extCount>>

\* ------------------------------------------------------------------------
\* Initial states of the WAF tools
\* ------------------------------------------------------------------------
\* source scopes: IP sets of distinct names, in listing order
SourceScopes ==
    {sets \in SeqsUpTo([name : Names, addrs : SourceLists], MaxSets) :
        \A i, j \in 1..Len(sets) : sets[i].name = sets[j].name => i = j}

DestinationScopes ==
    [Names -> {Absent, [present |-> TRUE, addrs |-> StaleList, token |-> 1]}]

CommandLines ==
    {[tool |-> "copy", sn |-> sn, dn |-> dn, ds |-> ds] :
        <<sn, dn, ds>> \in Names \X Names \X Scopes}
    \cup {[tool |-> "copyall", sn |-> 0, dn |-> 0, ds |-> ds] : ds \in Scopes}

WafStart ==
    /\ srcSets \in SourceScopes
    /\ dstSets \in DestinationScopes
    /\ args \in CommandLines
    /\ wpc = IF args.tool = "copy" THEN "c_start" ELSE "a_start"
    /\ ip_addresses = None
    /\ destination_ip_set_id = None
    /\ lock_token = None
    /\ source_ip_sets = <<>>
    /\ idx = 0
    /\ wcrash = None
    /\ wrun = "first"
    /\ lastRead = None
    /\ dirty = {}
    /\ updateLog = <<>>
    /\ toolWrites = <<>>
    /\ failed = {}
    /\ extCount = 0

NextWaf ==
    \/ CopyResolve /\ UNCHANGED ingestVars
    \/ CopyCreate /\ UNCHANGED ingestVars
    \/ CopyGetToken /\ UNCHANGED ingestVars
    \/ CopyUpdate /\ UNCHANGED ingestVars
    \/ AllListSource /\ UNCHANGED ingestVars
    \/ AllResolve /\ UNCHANGED ingestVars
    \/ AllGetToken /\ UNCHANGED ingestVars
    \/ AllUpdate /\ UNCHANGED ingestVars
    \/ AllCreate /\ UNCHANGED ingestVars
    \/ ExternalWrite /\ UNCHANGED ingestVars

InitWaf == WafStart /\ IngestIdle

SpecWaf == InitWaf /\ [][NextWaf]_vars

\* The operator invokes copy_ip_set a second time with the same command
\* line, after the first run ended.
CopyRerun ==
    /\ args.tool = "copy"
    /\ wpc \in {"done", "crashed"}
    /\ wrun = "first"
    /\ wrun' = "second"
    /\ wpc' = "c_start"
    /\ ip_addresses' = None
    /\ destination_ip_set_id' = None
    /\ lock_token' = None
    /\ wcrash' = None
    /\ lastRead' = None
    /\ dirty' = {}
    /\ updateLog' = <<>>
    /\ toolWrites' = <<>>
    /\ UNCHANGED <<srcSets, dstSets, args, source_ip_sets, idx, failed, extCount>>

NextCopyTwice ==
    \/ CopyResolve /\ UNCHANGED ingestVars
    \/ CopyCreate /\ UNCHANGED ingestVars
    \/ CopyGetToken /\ UNCHANGED ingestVars
    \/ CopyUpdate /\ UNCHANGED ingestVars
    \/ CopyRerun /\ UNCHANGED ingestVars
    \/ ExternalWrite /\ UNCHANGED ingestVars

InitCopyTwice == InitWaf /\ args.tool = "copy"

SpecCopyTwice == InitCopyTwice /\ [][NextCopyTwice]_vars

\* ========================================================================
\* Properties of getalblog.py
\* ========================================================================
Range(f) == {f[i] : i \in DOMAIN f}

\* the payload of the run's bulk write; empty when there was none
Submitted == IF bulkLog = <<>> THEN <<>> ELSE bulkLog[1]

\* the positions <<object, line>> of the bucket
Positions == UNION {{<<oi, li>> : li \in 1..Len(s3[oi].lines)} : oi \in 1..Len(s3)}

\* a line that is a well-formed access-log record
WellFormed(pos) == s3[pos[1]].lines[pos[2]] \in GoodLines

\* the time a well-formed line carries, as one number
Stamp(ym, day, sec, frac) == ((ym * 100 + day) * 100 + sec) * 100 + frac
LineStamp(pos) ==
    LET o == s3[pos[1]]
        l == o.lines[pos[2]]
    IN  Stamp(o.ym, o.day, l.sec, l.frac[1])
MarkStamp == LET t == last_log_time[1] IN Stamp(t.ym, t.day, t.sec, t.frac)

\* the objects of the bucket under a month's prefix, in key order
Partition(ym) == SelectSeq([i \in 1..Len(s3) |-> i], LAMBDA i : s3[i].ym = ym)

\* C1: in a run that has a high-water-mark, the batch never holds a record
\* whose timestamp is at or before the mark, and the batch a completed run
\* submitted holds exactly the well-formed records of the enumerated objects
\* whose timestamp is after the mark, each once.
C1_FilterByHighWaterMark ==
    last_log_time # None =>
        /\ \A k \in 1..Len(actions) : LineStamp(actions[k].line) > MarkStamp
        /\ pc = "done" =>
              /\ \A pos \in Positions :
                    (\E k \in 1..Len(Submitted) : Submitted[k].line = pos)
                    <=> /\ pos[1] \in Range(enumerated)
                        /\ WellFormed(pos)
                        /\ LineStamp(pos) > MarkStamp
              /\ \A j, k \in 1..Len(Submitted) :
                    Submitted[j].line = Submitted[k].line => j = k

\* a completed run that submitted a record newer than the mark and left out
\* one whose timestamp equals the mark
C1_Witness ==
    /\ pc = "done"
    /\ last_log_time # None
    /\ Submitted # <<>>
    /\ \E pos \in Positions :
          /\ pos[1] \in Range(enumerated)
          /\ WellFormed(pos)
          /\ LineStamp(pos) = MarkStamp

\* the newest timestamp among the documents of a payload
NewestWritten(payload) ==
    CHOOSE t \in {payload[k].timestamp : k \in 1..Len(payload)} :
        \A k \in 1..Len(payload) : ~DocBefore(t, payload[k].timestamp)

\* C2: a second run against the unchanged bucket, whose search of the index
\* did not raise, reads as high-water-mark the timestamp of the newest record
\* the first run wrote, and issues no bulk write.
C2_SecondRunIdempotent ==
    (/\ run = "second"
     /\ prevBulk # <<>>
     /\ searched # None
     /\ ~searched[1].raised)
    => /\ last_log_time # None
       /\ LET t == NewestWritten(prevBulk[1])
          IN  last_log_time[1] = DateTime(t.ym, t.day, t.sec, 0)
       /\ bulkLog = <<>>

\* C3: when the search of an existing index raises, the run goes on without
\* a high-water-mark: the failed lookup does not end it, and a completed run
\* submitted every well-formed record of the objects it enumerated.
C3_QueryFailureProceeds ==
    (searched # None /\ searched[1].raised) =>
        /\ ~(pc = "crashed" /\ crash = NoneYear.crash)
        /\ pc = "done" =>
              \A pos \in Positions :
                 (pos[1] \in Range(enumerated) /\ WellFormed(pos))
                 => \E k \in 1..Len(Submitted) : Submitted[k].line = pos

\* C4: no malformed line ends the run: an exception raised while a line is
\* processed is never raised for a line that is not a well-formed record.
C4_MalformedLineSkipped ==
    (pc = "crashed" /\ crash[1].at = 209) => WellFormed(crash[1].line)

\* the index was absent, or was there and the search found no document
IndexNewOrEmpty ==
    \/ pc # "start" /\ searched = None
    \/ searched # None /\ ~searched[1].raised /\ searched[1].hits = 0

\* C8: the prefix a run enumerates is the one of the wall-clock year and
\* month of the invocation.
C8_CurrentMonthPartition ==
    month_prefix # None =>
        /\ month_prefix = Some(now.ym)
        /\ \A k \in 1..Len(enumerated) : s3[enumerated[k]].ym = now.ym

\* C9: with the index absent or empty and an object in the bucket, the run
\* takes its high-water-mark from the earliest object and is not ended by the
\* lookup.
C9_InferredFromEarliestObject ==
    (IndexNewOrEmpty /\ s3 # <<>>) =>
        /\ last_log_time # None
        /\ last_log_time \in get_earliest_alb_log_date(s3)
        /\ ~(pc = "crashed" /\ crash = NoneYear.crash)

\* C10: a run issues at most one bulk write; the write comes after every
\* page was fetched and every object of the partition was processed, carries
\* the whole batch, and is not issued for an empty batch.
C10_SingleBulkWriteAtEnd ==
    /\ Len(bulkLog) <= 1
    /\ bulkLog # <<>> =>
          /\ pc = "done"
          /\ pages = <<>> /\ page = <<>>
          /\ enumerated = Partition(month_prefix[1])
          /\ bulkLog[1] = actions
          /\ actions # <<>>
    /\ (pc = "done" /\ actions # <<>>) => bulkLog = <<actions>>
    /\ (pc = "done" /\ actions = <<>>) => bulkLog = <<>>

\* a run that fetched two pages, processed an object of each and then wrote
C10_Witness ==
    /\ pc = "done"
    /\ Len(bulkLog) = 1
    /\ Len(enumerated) >= 2

\* ========================================================================
\* Properties of copyipset.py and copyallipset.py
\* ========================================================================
SourceAddrs(name) == FindByName(srcSets, name)[1].addrs

\* C5: a copy_ip_set run that no other client interfered with, for a source
\* IP set that exists, ends without an exception and with the destination IP
\* set holding the source's address list, whatever the destination scope,
\* the first time and the second.
C5_DestinationEqualsSource ==
    (/\ args.tool = "copy"
     /\ wpc \in {"done", "crashed"}
     /\ extCount = 0
     /\ FindByName(srcSets, args.sn) # None)
    => /\ wpc = "done"
       /\ wcrash = None
       /\ dstSets[args.dn].present
       /\ dstSets[args.dn].addrs = SourceAddrs(args.sn)

\* C6: every update_ip_set call of the tools carries the token of the tool's
\* latest read of that IP set; when another client wrote the set after that
\* read, the call fails with the optimistic-lock error, leaves the set's
\* address list as it was, and is the last call of the run.
C6_UpdateUnderTokenRead ==
    \A k \in 1..Len(updateLog) :
        LET e == updateLog[k] IN
        /\ e.read = Some([id |-> e.id, token |-> e.token])
        /\ e.dirty =>
              /\ e.error = "WAFOptimisticLockException"
              /\ e.after = e.before
              /\ e.after = ExternalList
              /\ k = Len(updateLog)
              /\ wpc = "crashed"

\* an update that failed because another client wrote the set after the read
C6_Witness ==
    \E k \in 1..Len(updateLog) :
        /\ updateLog[k].dirty
        /\ updateLog[k].error = "WAFOptimisticLockException"

\* the run wrote the source's address list to the destination set of the
\* i-th source IP set
Replicated(i) ==
    \E k \in 1..Len(toolWrites) :
        /\ toolWrites[k].name = source_ip_sets[i].name
        /\ toolWrites[k].addrs = source_ip_sets[i].addrs

====
